---- MODULE Spec2Model ----
(***************************************************************************)
(* EuclideanDistance::run of whitebox-tools                                *)
(* (src/whitebox-tools-app/src/tools/gis_analysis/euclidean_distance.rs).  *)
(*                                                                         *)
(* The state machine follows run: argument parsing, opening the input      *)
(* raster, the initialization pass, the forward scan, the backward scan,   *)
(* the final pass and the write of the output raster.  The three scans and *)
(* the final pass advance one grid cell per step, in the order of the      *)
(* nested for loops.                                                       *)
(*                                                                         *)
(* Numbers.  The working values are f64 values that are non-negative       *)
(* integers or +infinity; +infinity is the integer inf_val, larger than any    *)
(* value a scan can produce, and Add saturates at it.  The final pass      *)
(* writes sqrt(z) * cell_size with cell_size = (res_x + res_y) / 2; such a *)
(* real x is kept exactly as 4 * sgn(x) * x^2, an order-preserving         *)
(* injection of the reals into themselves that maps these values to        *)
(* integers.  Real(m) is that image of an integer m.                       *)
(*                                                                         *)
(* Strings are sequences of one-character strings.                         *)
(*                                                                         *)
(* fwd is a history variable: the output raster as the forward scan left   *)
(* it.  result is what run returns ("running" until it does); a panic of   *)
(* an out-of-bounds index is the result "panic".                           *)
(***************************************************************************)
EXTENDS Integers, Sequences, FiniteSets, TLC

VARIABLES args, pc, result, opened, input_file, output_file,
          input, output, rx, ry, row, col, fwd

vars == <<args, pc, result, opened, input_file, output_file,
          input, output, rx, ry, row, col, fwd>>

----------------------------------------------------------------------------
(* Bounds of the inputs *)

MaxCells == 6
MaxMarked == 2
OverMaxRows == 3
OverMaxCols == 4
OverMaxTargets == 2
ExactMaxRows == 4
ExactMaxCols == 5
ExactMaxTargets == 2
SymMaxRows == 4
SymMaxCols == 12
SymMaxPairs == 1
CliMaxArgs == 3
CliMaxRows == 1
CliMaxCols == 2
CliMaxTargets == 1

----------------------------------------------------------------------------
(* Numbers *)

inf_val == 999999

Add(a, b) == IF a = inf_val \/ b = inf_val THEN inf_val ELSE a + b

Real(m) == IF m < 0 THEN -4 * m * m ELSE 4 * m * m

Sqrt_mul(z, res_x, res_y) ==
    IF z = inf_val THEN inf_val ELSE z * (res_x + res_y) * (res_x + res_y)

----------------------------------------------------------------------------
(* Strings and the argument parser *)

Str_i == <<"-", "i">>
Str_input == <<"-", "i", "n", "p", "u", "t">>
Str_o == <<"-", "o">>
Str_output == <<"-", "o", "u", "t", "p", "u", "t">>
working_directory == <<"/", "w", "/">>

Tok_i == <<"-", "i">>
Tok_o == <<"-", "o">>
Tok_i_eq == <<"-", "i", "=", "a">>
Tok_output_eq == <<"-", "-", "O", "u", "t", "p", "u", "t", "=", "\"", "b", "\"">>
Tok_val == <<"a">>

Tokens == {Tok_i, Tok_o, Tok_i_eq, Tok_output_eq, Tok_val}

RECURSIVE Remove(_, _)
Remove(s, ch) ==
    IF s = <<>> THEN <<>>
    ELSE IF Head(s) = ch THEN Remove(Tail(s), ch)
    ELSE <<Head(s)>> \o Remove(Tail(s), ch)

RECURSIVE Contains(_, _)
Contains(s, ch) ==
    IF s = <<>> THEN FALSE ELSE Head(s) = ch \/ Contains(Tail(s), ch)

RECURSIVE SplitEq(_)
SplitEq(s) ==
    IF ~Contains(s, "=") THEN <<s>>
    ELSE LET k == CHOOSE j \in 1..Len(s) :
                      s[j] = "=" /\ \A m \in 1..(j - 1) : s[m] # "="
         IN <<SubSeq(s, 1, k - 1)>> \o SplitEq(SubSeq(s, k + 1, Len(s)))

LowerChar(ch) ==
    CASE ch = "I" -> "i"
      [] ch = "O" -> "o"
      [] OTHER -> ch

to_lowercase(s) == [j \in 1..Len(s) |-> LowerChar(s[j])]

RECURSIVE ReplaceDashes(_)
ReplaceDashes(s) ==
    IF s = <<>> THEN <<>>
    ELSE IF Len(s) >= 2 /\ s[1] = "-" /\ s[2] = "-"
         THEN <<"-">> \o ReplaceDashes(SubSeq(s, 3, Len(s)))
    ELSE <<Head(s)>> \o ReplaceDashes(Tail(s))

SplitArg(a) == SplitEq(Remove(Remove(a, "\""), "'"))

flag_val(a) == ReplaceDashes(to_lowercase(SplitArg(a)[1]))

keyval(a) == Len(SplitArg(a)) > 1

IsInputFlag(a) == flag_val(a) = Str_i \/ flag_val(a) = Str_input

IsOutputFlag(a) == flag_val(a) = Str_o \/ flag_val(a) = Str_output

(* the for loop over the arguments, from index i (1-based) on: st holds   *)
(* input_file, output_file and whether args[i + 1] was read out of bounds  *)
RECURSIVE ParseLoop(_, _, _)
ParseLoop(as, i, st) ==
    IF i > Len(as) \/ st.panic THEN st
    ELSE LET a == as[i]
             isIn == IsInputFlag(a)
             isOut == ~isIn /\ IsOutputFlag(a)
             oob == (isIn \/ isOut) /\ ~keyval(a) /\ i + 1 > Len(as)
             v == IF keyval(a) THEN SplitArg(a)[2]
                  ELSE IF i + 1 <= Len(as) THEN as[i + 1] ELSE <<>>
         IN ParseLoop(as, i + 1,
                [input_file |-> IF isIn /\ ~oob THEN v ELSE st.input_file,
                 output_file |-> IF isOut /\ ~oob THEN v ELSE st.output_file,
                 panic |-> oob])

Parsed(as) ==
    ParseLoop(as, 1, [input_file |-> <<>>, output_file |-> <<>>, panic |-> FALSE])

Resolve(f) == IF ~Contains(f, "/") THEN working_directory \o f ELSE f

----------------------------------------------------------------------------
(* Rasters *)

CellsOf(rows, columns) == (0..(rows - 1)) \X (0..(columns - 1))

Cells == CellsOf(input.rows, input.columns)

nodata == input.nodata

InGrid(y, x) == y >= 0 /\ y < input.rows /\ x >= 0 /\ x < input.columns

get_value(grid, y, x) == IF InGrid(y, x) THEN grid[<<y, x>>] ELSE nodata

dx == [i \in 0..7 |-> <<-1, -1, 0, 1, 1, 1, 0, -1>>[i + 1]]
dy == [i \in 0..7 |-> <<0, -1, -1, -1, 0, 1, 1, 1>>[i + 1]]
gx == [i \in 0..7 |-> <<1, 1, 0, 1, 1, 1, 0, 1>>[i + 1]]
gy == [i \in 0..7 |-> <<0, 1, 1, 1, 0, 1, 1, 1>>[i + 1]]

----------------------------------------------------------------------------
(* The scans *)

(* StepCost with the offset grids of the two axis neighbours exchanged *)
StepCost_SwappedAxes(i, y, x) ==
    CASE i % 4 = 0 -> 2 * get_value(ry, y, x) + 1
      [] i % 4 = 2 -> 2 * get_value(rx, y, x) + 1
      [] OTHER -> 2 * (get_value(rx, y, x) + get_value(ry, y, x) + 1)

(* StepCost without the doubling of the offsets *)
StepCost_NotDoubled(i, y, x) ==
    CASE i % 4 = 0 -> get_value(rx, y, x) + 1
      [] i % 4 = 2 -> get_value(ry, y, x) + 1
      [] OTHER -> get_value(rx, y, x) + get_value(ry, y, x) + 2

(* the match on i of lines 249-254 and 291-296 *)
StepCost(i, y, x) ==
    CASE i % 4 = 0 -> 2 * get_value(rx, y, x) + 1
      [] i % 4 = 2 -> 2 * get_value(ry, y, x) + 1
      [] OTHER -> 2 * (get_value(rx, y, x) + get_value(ry, y, x) + 1)

(* the test z2 != nodata of lines 248 and 290 for neighbour i of (r, c) *)
Contributes(r, c, i) == get_value(output, r + dy[i], c + dx[i]) # nodata

(* z2 after z2 += h *)
Candidate(r, c, i) ==
    Add(get_value(output, r + dy[i], c + dx[i]),
        StepCost(i, r + dy[i], c + dx[i]))

(* the loop over the neighbours i..hi of (r, c): <<z_min, which_cell>> *)
RECURSIVE NeighbourLoop(_, _, _, _, _, _)
NeighbourLoop(r, c, i, hi, z_min, which_cell) ==
    IF i > hi THEN <<z_min, which_cell>>
    ELSE IF Contributes(r, c, i) /\ Candidate(r, c, i) < z_min
         THEN NeighbourLoop(r, c, i + 1, hi, Candidate(r, c, i), i)
    ELSE NeighbourLoop(r, c, i + 1, hi, z_min, which_cell)

(* Improves with a test that is not strict *)
Improves_NotStrict(z_min, z) == z_min <= z

(* the test z_min < z of lines 262 and 304 *)
Improves(z_min, z) == z_min < z

(* the test z != 0.0 of lines 241 and 283 *)
Scanned(z) == z # 0

(* the body of the column loop of a scan at (r, c), neighbours lo..lo+3:  *)
(* the new output, rx and ry                                              *)
ScanCell(r, c, lo) ==
    LET z == get_value(output, r, c)
        best == NeighbourLoop(r, c, lo, lo + 3, inf_val, 0)
        z_min == best[1]
        w == best[2]
        y == r + dy[w]
        x == c + dx[w]
    IN IF Scanned(z) /\ Improves(z_min, z)
       THEN [output |-> [output EXCEPT ![<<r, c>>] = z_min],
             rx |-> [rx EXCEPT ![<<r, c>>] = get_value(rx, y, x) + gx[w]],
             ry |-> [ry EXCEPT ![<<r, c>>] = get_value(ry, y, x) + gy[w]]]
       ELSE [output |-> output, rx |-> rx, ry |-> ry]

(* lines 223-227 *)
InitValue(r, c) == IF get_value(input.data, r, c) # 0 THEN 0 ELSE inf_val

(* FinalValue with the test made on the working value of the cell *)
FinalValue_TestsOutput(r, c) ==
    IF get_value(output, r, c) # nodata
    THEN Sqrt_mul(get_value(output, r, c), input.resolution_x, input.resolution_y)
    ELSE Real(nodata)

(* lines 322, 325-329 *)
FinalValue(r, c) ==
    IF get_value(input.data, r, c) # nodata
    THEN Sqrt_mul(get_value(output, r, c), input.resolution_x, input.resolution_y)
    ELSE Real(nodata)

----------------------------------------------------------------------------
(* run, step by step *)

Fail(kind) ==
    /\ pc' = "done"
    /\ result' = kind

(* lines 139-144 *)
NoParameters ==
    /\ pc = "start"
    /\ Len(args) = 0
    /\ Fail("InvalidInput")
    /\ UNCHANGED <<args, opened, input_file, output_file, input, output, rx, ry,
                   row, col, fwd>>

(* lines 145-168 with args[i + 1] out of bounds *)
ParsePanic ==
    /\ pc = "start"
    /\ Len(args) > 0
    /\ Parsed(args).panic
    /\ Fail("panic")
    /\ UNCHANGED <<args, opened, input_file, output_file, input, output, rx, ry,
                   row, col, fwd>>

(* lines 145-191 *)
ParseArgs ==
    /\ pc = "start"
    /\ Len(args) > 0
    /\ ~Parsed(args).panic
    /\ input_file' = Resolve(Parsed(args).input_file)
    /\ output_file' = Resolve(Parsed(args).output_file)
    /\ pc' = "open"
    /\ UNCHANGED <<args, result, opened, input, output, rx, ry, row, col, fwd>>

(* line 197, Raster::new fails *)
OpenFails ==
    /\ pc = "open"
    /\ opened' = TRUE
    /\ Fail("IoError")
    /\ UNCHANGED <<args, input_file, output_file, input, output, rx, ry,
                   row, col, fwd>>

(* lines 197-208 *)
OpenInput ==
    /\ pc = "open"
    /\ opened' = TRUE
    /\ rx' = [p \in Cells |-> 0]
    /\ ry' = [p \in Cells |-> 0]
    /\ output' = [p \in Cells |-> nodata]
    /\ row' = 0
    /\ col' = 0
    /\ pc' = "init"
    /\ UNCHANGED <<args, result, input_file, output_file, input, fwd>>

(* the next cell of a loop over rows 0..rows and columns 0..columns *)
LastAscending == row = input.rows - 1 /\ col = input.columns - 1

StepAscending ==
    IF col + 1 < input.columns
    THEN row' = row /\ col' = col + 1
    ELSE row' = row + 1 /\ col' = 0

(* the next cell of a loop over the rows and the columns reversed *)
LastDescending == row = 0 /\ col = 0

StepDescending ==
    IF col > 0
    THEN row' = row /\ col' = col - 1
    ELSE row' = row - 1 /\ col' = input.columns - 1

(* lines 221-228 *)
InitCell ==
    /\ pc = "init"
    /\ output' = [output EXCEPT ![<<row, col>>] = InitValue(row, col)]
    /\ IF LastAscending
       THEN pc' = "forward" /\ row' = 0 /\ col' = 0
       ELSE pc' = pc /\ StepAscending
    /\ UNCHANGED <<args, result, opened, input_file, output_file, input, rx, ry, fwd>>

(* lines 238-270 *)
ForwardCell ==
    /\ pc = "forward"
    /\ output' = ScanCell(row, col, 0).output
    /\ rx' = ScanCell(row, col, 0).rx
    /\ ry' = ScanCell(row, col, 0).ry
    /\ IF LastAscending
       THEN /\ pc' = "backward"
            /\ fwd' = output'
            /\ row' = input.rows - 1
            /\ col' = input.columns - 1
       ELSE pc' = pc /\ fwd' = fwd /\ StepAscending
    /\ UNCHANGED <<args, result, opened, input_file, output_file, input>>

(* lines 280-312 *)
BackwardCell ==
    /\ pc = "backward"
    /\ output' = ScanCell(row, col, 4).output
    /\ rx' = ScanCell(row, col, 4).rx
    /\ ry' = ScanCell(row, col, 4).ry
    /\ IF LastDescending
       THEN pc' = "final" /\ row' = 0 /\ col' = 0
       ELSE pc' = pc /\ StepDescending
    /\ UNCHANGED <<args, result, opened, input_file, output_file, input, fwd>>

(* lines 322-330 *)
FinalCell ==
    /\ pc = "final"
    /\ output' = [output EXCEPT ![<<row, col>>] = FinalValue(row, col)]
    /\ IF LastAscending
       THEN pc' = "write" /\ row' = row /\ col' = col
       ELSE pc' = pc /\ StepAscending
    /\ UNCHANGED <<args, result, opened, input_file, output_file, input, rx, ry, fwd>>

(* lines 352-359, output.write() fails *)
WriteFails ==
    /\ pc = "write"
    /\ Fail("IoError")
    /\ UNCHANGED <<args, opened, input_file, output_file, input, output, rx, ry,
                   row, col, fwd>>

(* lines 352-368 *)
WriteOutput ==
    /\ pc = "write"
    /\ Fail("Ok")
    /\ UNCHANGED <<args, opened, input_file, output_file, input, output, rx, ry,
                   row, col, fwd>>

Next ==
    \/ NoParameters
    \/ ParsePanic
    \/ ParseArgs
    \/ OpenFails
    \/ OpenInput
    \/ InitCell
    \/ ForwardCell
    \/ BackwardCell
    \/ FinalCell
    \/ WriteFails
    \/ WriteOutput

----------------------------------------------------------------------------
(* The inputs *)

RECURSIVE SubsetsUpTo(_, _)
SubsetsUpTo(S, k) ==
    IF k = 0 THEN {{}}
    ELSE LET P == SubsetsUpTo(S, k - 1)
         IN P \cup {p \cup {e} : p \in P, e \in S}

(* a value that is neither 0 nor the missing-data value nd *)
TargetValue(nd) == IF nd = 1 THEN 2 ELSE 1

(* the raster of shape rows x columns with target cells T, missing cells M *)
(* and background elsewhere                                               *)
RasterOf(rows, columns, nd, res, T, M) ==
    [rows |-> rows, columns |-> columns, nodata |-> nd,
     resolution_x |-> res[1], resolution_y |-> res[2],
     data |-> [p \in CellsOf(rows, columns) |->
                  IF p \in T THEN TargetValue(nd)
                  ELSE IF p \in M THEN nd ELSE 0]]

Rotate(rows, columns, p) == <<rows - 1 - p[1], columns - 1 - p[2]>>

(* the shapes of at most maxCells cells, and those within maxRows x maxCols *)
ShapesOfSize(maxCells) ==
    {s \in (1..maxCells) \X (1..maxCells) : s[1] * s[2] <= maxCells}

ShapesWithin(maxRows, maxCols) == (1..maxRows) \X (1..maxCols)

Header(nd, res_x, res_y) == [nodata |-> nd, res |-> <<res_x, res_y>>]

Headers == {Header(-1, 1, 1), Header(0, 2, 2), Header(1, 1, 3), Header(4, 1, 2)}

PlainHeaders == {Header(-1, 1, 3)}

OverHeaders == {Header(-1, 1, 1), Header(1, 1, 3)}

RECURSIVE ArgLists(_)
ArgLists(n) ==
    IF n = 0 THEN {<<>>}
    ELSE LET P == ArgLists(n - 1)
         IN P \cup {Append(p, t) : p \in P, t \in Tokens}

BasicArgs == {<<>>, <<Tok_i>>, <<Tok_i_eq, Tok_output_eq>>}

Start(a, raster) ==
    /\ args = a
    /\ input = raster
    /\ pc = "start"
    /\ result = "running"
    /\ opened = FALSE
    /\ input_file = <<>>
    /\ output_file = <<>>
    /\ output = <<>>
    /\ rx = <<>>
    /\ ry = <<>>
    /\ fwd = <<>>
    /\ row = 0
    /\ col = 0

(* every raster of at most MaxCells cells of which at most MaxMarked are  *)
(* targets or missing                                                     *)
Init ==
    \E a \in BasicArgs, s \in ShapesOfSize(MaxCells), h \in Headers :
      \E S \in SubsetsUpTo(CellsOf(s[1], s[2]), MaxMarked) :
        \E T \in SUBSET S :
          Start(a, RasterOf(s[1], s[2], h.nodata, h.res, T, S \ T))

Spec == Init /\ [][Next]_vars

(* rasters without missing cells *)
InitOver ==
    \E a \in BasicArgs, s \in ShapesWithin(OverMaxRows, OverMaxCols),
       h \in OverHeaders :
      \E T \in SubsetsUpTo(CellsOf(s[1], s[2]), OverMaxTargets) :
        Start(a, RasterOf(s[1], s[2], h.nodata, h.res, T, {}))

SpecOver == InitOver /\ [][Next]_vars

InitExact ==
    \E a \in BasicArgs, s \in ShapesWithin(ExactMaxRows, ExactMaxCols),
       h \in PlainHeaders :
      \E T \in SubsetsUpTo(CellsOf(s[1], s[2]), ExactMaxTargets) :
        Start(a, RasterOf(s[1], s[2], h.nodata, h.res, T, {}))

SpecExact == InitExact /\ [][Next]_vars

(* rasters without missing cells whose targets are symmetric under the    *)
(* rotation by 180 degrees                                                *)
InitSym ==
    \E a \in BasicArgs, s \in ShapesWithin(SymMaxRows, SymMaxCols),
       h \in PlainHeaders :
      \E H \in SubsetsUpTo(CellsOf(s[1], s[2]), SymMaxPairs) :
        Start(a, RasterOf(s[1], s[2], h.nodata, h.res,
                          H \cup {Rotate(s[1], s[2], p) : p \in H}, {}))

SpecSym == InitSym /\ [][Next]_vars

InitCli ==
    \E a \in ArgLists(CliMaxArgs), s \in ShapesWithin(CliMaxRows, CliMaxCols),
       h \in PlainHeaders :
      \E T \in SubsetsUpTo(CellsOf(s[1], s[2]), CliMaxTargets) :
        Start(a, RasterOf(s[1], s[2], h.nodata, h.res, T, {}))

SpecCli == InitCli /\ [][Next]_vars

----------------------------------------------------------------------------
(* Reference notions of the properties *)

(* a target cell: neither zero nor missing *)
IsTarget(p) == input.data[p] # 0 /\ input.data[p] # nodata

IsMissing(p) == input.data[p] = nodata

NoMissing == \A p \in Cells : ~IsMissing(p)

SqDist(p, q) == (p[1] - q[1]) * (p[1] - q[1]) + (p[2] - q[2]) * (p[2] - q[2])

(* the squared distance from p to the nearest target, by exhaustive search *)
TrueSqDist(p) ==
    LET D == {SqDist(p, t) : t \in {q \in Cells : IsTarget(q)}}
    IN IF D = {} THEN inf_val ELSE CHOOSE d \in D : \A e \in D : d <= e

Scanning == pc = "forward" \/ pc = "backward"

AfterInit == pc = "forward" /\ row = 0 /\ col = 0

AfterBackward == pc = "final" /\ row = 0 /\ col = 0

AfterFinal == pc = "write"

Rot(p) == Rotate(input.rows, input.columns, p)

Adjacent(p, q) == p # q /\ SqDist(p, q) <= 2

(* C1: without missing cells, the squared distances left by the backward  *)
(* scan are the true minimum squared distances to a target, and the final *)
(* output is the cell size times the true distance.                       *)
C1_Exact ==
    /\ (AfterBackward /\ NoMissing) =>
           \A p \in Cells : output[p] = TrueSqDist(p)
    /\ (AfterFinal /\ NoMissing) =>
           \A p \in Cells :
              output[p] = Sqrt_mul(TrueSqDist(p), input.resolution_x,
                                   input.resolution_y)

(* C2: after the final pass every cell whose input is the missing-data    *)
(* value holds that value, and the final pass gives every other cell the  *)
(* square root of its squared distance times the cell size.               *)
C2_MissingPropagation ==
    /\ [](AfterFinal =>
            \A p \in Cells : IsMissing(p) => output[p] = Real(nodata))
    /\ [][pc = "final" =>
            (~IsMissing(<<row, col>>) =>
                output'[<<row, col>>] =
                    Sqrt_mul(output[<<row, col>>], input.resolution_x,
                             input.resolution_y))]_vars

C2_Witness ==
    /\ AfterFinal
    /\ nodata # 0
    /\ \E p, q \in Cells :
          /\ IsMissing(p) /\ IsTarget(q) /\ Adjacent(p, q)
          /\ output[p] = Real(nodata)
          /\ output[q] = 0

(* C3: when no cell is a target, every cell that is not missing is        *)
(* +infinity in the final output.                                         *)
C3_AllBackground ==
    (AfterFinal /\ \A q \in Cells : ~IsTarget(q)) =>
        \A p \in Cells : ~IsMissing(p) => output[p] = inf_val

(* C4: without missing cells, a set of targets that the rotation by 180   *)
(* degrees maps onto itself gives a final output with the same symmetry.  *)
C4_Symmetry ==
    (AfterFinal /\ NoMissing /\ \A q \in Cells : IsTarget(q) <=> IsTarget(Rot(q))) =>
        \A p \in Cells : output[p] = output[Rot(p)]

(* C5: a step of the forward or the backward scan that writes a cell      *)
(* lowers its squared distance strictly and never writes a cell holding   *)
(* 0, and during and after the backward scan no cell is above the value   *)
(* the forward scan left in it.                                           *)
C5_Monotonic ==
    /\ [][Scanning =>
            \A p \in Cells :
               /\ output'[p] <= output[p]
               /\ (output'[p] # output[p] \/ rx'[p] # rx[p] \/ ry'[p] # ry[p])
                     => (output'[p] < output[p] /\ output[p] # 0)]_vars
    /\ []((pc = "backward" \/ AfterBackward) =>
            \A p \in Cells : output[p] <= fwd[p])

C5_Witness ==
    /\ AfterBackward
    /\ NoMissing
    /\ \E p \in Cells : output[p] < fwd[p] /\ fwd[p] < inf_val

(* C7: during the two scans every cell with a finite squared distance     *)
(* satisfies rx^2 + ry^2 = squared distance.                              *)
C7_Offsets ==
    (Scanning \/ AfterBackward) =>
        \A p \in Cells :
           output[p] < inf_val => rx[p] * rx[p] + ry[p] * ry[p] = output[p]

C7_Witness ==
    /\ pc = "backward"
    /\ \E p, q \in Cells :
          /\ output[p] < inf_val /\ rx[p] > 0 /\ ry[p] > 0
          /\ output[q] < inf_val /\ (rx[q] >= 2 \/ ry[q] >= 2)

(* C8: after the initialization pass a cell holds 0 exactly when it is a  *)
(* target, and every other cell, background or missing, holds +infinity.  *)
C8_Initializer ==
    AfterInit =>
        \A p \in Cells :
           /\ output[p] = 0 <=> IsTarget(p)
           /\ ~IsTarget(p) => output[p] = inf_val

(* C9: in the two scans a neighbour of the cell being scanned is left out *)
(* of the candidate minimum exactly when it lies outside the grid.        *)
C9_BorderOnly ==
    (Scanning /\ Scanned(output[<<row, col>>])) =>
        LET lo == IF pc = "forward" THEN 0 ELSE 4
        IN \A i \in lo..(lo + 3) :
              ~Contributes(row, col, i) <=> ~InGrid(row + dy[i], col + dx[i])

(* C10: without missing cells, during the two scans no cell holds a       *)
(* squared distance below the true minimum squared distance to a target.  *)
C10_NoUnderEstimate ==
    ((Scanning \/ AfterBackward) /\ NoMissing) =>
        \A p \in Cells : output[p] >= TrueSqDist(p)

C10_Witness ==
    /\ pc = "backward"
    /\ NoMissing
    /\ \E p \in Cells : output[p] < inf_val /\ output[p] > TrueSqDist(p)

(* the input or the output locator is not supplied: no argument is an     *)
(* input (output) flag that carries a value or is followed by an argument *)
Supplies(as, j) == keyval(as[j]) \/ j < Len(as)

MissingLocator(as) ==
    \/ ~\E j \in 1..Len(as) : IsInputFlag(as[j]) /\ Supplies(as, j)
    \/ ~\E j \in 1..Len(as) : IsOutputFlag(as[j]) /\ Supplies(as, j)
    \/ \E j \in 1..Len(as) :
          (IsInputFlag(as[j]) \/ IsOutputFlag(as[j])) /\ ~Supplies(as, j)

(* C6: when the input or the output locator is not supplied, run returns  *)
(* an InvalidInput error at once: the input raster is never opened and no *)
(* pass starts.                                                           *)
C6_InvalidInvocation ==
    (MissingLocator(args) /\ pc # "start") =>
        (pc = "done" /\ result = "InvalidInput" /\ ~opened)

====
